---- MODULE Spec2Model ----
(***************************************************************************)
(* Nuclei-guided correction of a 3D cell segmentation                      *)
(* (plantseg/dataprocessing/functional/advanced_dataprocessing.py).        *)
(*                                                                         *)
(* A label volume is a function from voxel coordinates <<a0, a1, a2>>      *)
(* (0-based, one entry per axis of the numpy array) to a label; 0 is       *)
(* background.  A boolean mask is the set of its true voxels.              *)
(***************************************************************************)
EXTENDS Integers, Sequences, FiniteSets, TLC

VARIABLES
    pc,              \* position of the operation under study
    mask,            \* get_bbox: the true voxels of the mask argument
    pixel_toll,      \* get_bbox: the pixel_toll argument
    bbox,            \* get_bbox: the returned slices
    segm,            \* the cell label volume being corrected (_segmentation)
    pre,             \* the cell label volume as the last operation received it
    all_idx,         \* split_from_seeds: the cell ids of the last split
    nsplit,          \* number of splits attempted so far
    nuclei_assignments,  \* records of find_potential_over_seg, by nucleus id
    nuclei_idx,      \* fix_over_segmentation: the optional nucleus id filter
    todo,            \* the keys a loop over a dict has still to visit
    n_seg,           \* the nuclei label volume (read only)
    cell_counts,     \* voxel count per cell id
    nuclei_counts,   \* voxel count per nucleus id
    intersection_counts,  \* voxel count per (cell id, nucleus id)
    threshold_merge, \* ratio above which a cell claims a nucleus (merge)
    threshold_split, \* ratio above which a nucleus lies in a cell (split)
    quantiles,       \* the two quantile fractions of the nuclei size filter
    idx,             \* loop variable of the analysis pass, -1 before the loop
    r_intersection,  \* the ratios the last round of the loop computed
    seg_idx,         \* under_seg_n_idx / over_seg_c_idx of the last round
    cell_assignments,    \* records of find_potential_under_seg, by cell id
    wk,              \* numba_find_overlaps: per worker, its place in its plane
    block            \* voxels of the real volume one model voxel stands for

vars == <<pc, mask, pixel_toll, bbox, segm, pre, all_idx, nsplit,
          nuclei_assignments, nuclei_idx, todo, n_seg, cell_counts,
          nuclei_counts, intersection_counts, threshold_merge,
          threshold_split, quantiles, idx, r_intersection, seg_idx,
          cell_assignments, wk, block>>

statVars == <<cell_counts, nuclei_counts, intersection_counts>>

paramVars == <<threshold_merge, threshold_split, quantiles>>

loopVars == <<idx, r_intersection, seg_idx>>

countVars == <<n_seg, wk, block>>

\* what the specifications of get_bbox, split_from_seeds and
\* fix_over_segmentation never touch
anaVars == <<statVars, paramVars, loopVars, countVars, cell_assignments>>

bboxVars == <<mask, pixel_toll, bbox>>

splitVars == <<all_idx, nsplit>>

mergeVars == <<nuclei_assignments, nuclei_idx>>

----------------------------------------------------------------------------
(* Bounds and shapes                                                       *)

\* shape of the volumes handed to get_bbox and split_from_seeds
Shape == <<2, 2, 2>>

\* largest pixel_toll tried
MaxToll == 1

\* labels of an input cell volume (0 is background)
InputLabels == 0 .. 2

\* the cell ids among them
InputIds == InputLabels \ {0}

\* seed values handed to the flooding are 0 .. NumSeeds
NumSeeds == 2

\* splits attempted in one behaviour
MaxSplits == 2

\* shape and labels of the volumes handed to fix_over_segmentation
MergeShape == <<1, 2, 2>>

MergeLabels == 0 .. 3

\* nucleus ids of the over-segmentation records are 1 .. MaxRecordNucleus
MaxRecordNucleus == 2

\* shape and labels of the volumes handed to numba_find_overlaps alone
CountShape == <<2, 1, 2>>

CountCellLabels == 0 .. 2

CountNucleiLabels == 0 .. 1

\* np.uint16: the width of the three counter arrays
CounterBits == 16

\* one model voxel stands for a run of this many voxels of the real volume
\* along the last axis, all with the labels of the model voxel
BlockSizes == { 1, 2 ^ (CounterBits - 1) }

\* the analysis passes receive nuclei_counts of ids 0 .. n, n <= MaxNucleus
MaxNucleus == 3

\* the cell ids (rows of the overlap matrix) the under-segmentation pass
\* receives, and those the over-segmentation pass receives
UnderCells == 0 .. 1

OverCells == 0 .. 2

\* entries of nuclei_counts and of the overlap matrix handed to the passes
CountValues == {0, 50, 100}

OverlapValues == {0, 10, 50, 90}

\* thresholds: 0.5, and the defaults 0.9 (find_potential_under_seg) and
\* 0.3 (find_potential_over_seg)
SplitThresholds == { <<1, 2>>, <<9, 10>> }

MergeThresholds == { <<1, 2>>, <<3, 10>> }

\* quantile bounds: (0, 1) and the default (0.2, 0.99)
QuantileBounds == { << <<0, 1>>, <<1, 1>> >>, << <<1, 5>>, <<99, 100>> >> }

----------------------------------------------------------------------------
(* Helpers                                                                 *)

Min2(a, b) == IF a < b THEN a ELSE b

Max2(a, b) == IF a > b THEN a ELSE b

SetMin(S) == CHOOSE m \in S : \A e \in S : m <= e

SetMax(S) == CHOOSE m \in S : \A e \in S : m >= e

RECURSIVE SortedSeq(_)
\* the elements of a set of numbers in ascending order
SortedSeq(S) ==
    IF S = {} THEN <<>>
    ELSE <<SetMin(S)>> \o SortedSeq(S \ {SetMin(S)})

VoxelsOf(shape) ==
    (0 .. shape[1] - 1) \X (0 .. shape[2] - 1) \X (0 .. shape[3] - 1)

\* the coordinates of the true voxels along one axis: np.nonzero(mask)[axis]
Coords(m, axis) == { v[axis] : v \in m }

----------------------------------------------------------------------------
(* get_bbox                                                                *)

\* z_max = z_max if z_max - z_min > 0 else 1
ZMaxFix(z_min, z_max) == IF z_max - z_min > 0 THEN z_max ELSE 1

\* the three slices; the mask must hold a true voxel (min() of an empty
\* array raises)
get_bbox(m, shape, toll) ==
    LET z_min == Max2(SetMin(Coords(m, 1)) - toll, 0)
        z_max == Min2(SetMax(Coords(m, 1)) + toll, shape[1])
        x_min == Max2(SetMin(Coords(m, 2)) - toll, 0)
        x_max == Min2(SetMax(Coords(m, 2)) + toll, shape[2])
        y_min == Max2(SetMin(Coords(m, 3)) - toll, 0)
        y_max == Min2(SetMax(Coords(m, 3)) + toll, shape[3])
    IN  << <<z_min, ZMaxFix(z_min, z_max)>>, <<x_min, x_max>>, <<y_min, y_max>> >>

\* the lower and the upper bound of slice(lo, hi) on one axis
Lower(box, axis) == box[axis][1]

Upper(box, axis) == box[axis][2]

\* array[bbox] selects index i on an axis of size n iff lo <= i < min(hi, n)
InSlice(box, shape, axis, i) ==
    /\ Lower(box, axis) <= i
    /\ i < Min2(Upper(box, axis), shape[axis])

InBox(box, shape, v) == \A axis \in 1 .. 3 : InSlice(box, shape, axis, v[axis])

BoxVoxels(box, shape) == { v \in VoxelsOf(shape) : InBox(box, shape, v) }

NoBox == << <<0, 0>>, <<0, 0>>, <<0, 0>> >>

----------------------------------------------------------------------------
(* split_from_seeds                                                        *)

MaxOf(seg) == SetMax({ seg[v] : v \in DOMAIN seg })

\* mask = np.logical_or.reduce([c_segmentation == label_idx for label_idx in all_idx])
LabelMask(seg, ids) == { v \in DOMAIN seg : seg[v] \in ids }

\* bbox, z_min, x_min, y_min = get_bbox(mask)
SplitBox(seg, ids) == get_bbox(LabelMask(seg, ids), Shape, 0)

\* the voxels of the crop volume[bbox]
SplitCrop(seg, ids) == BoxVoxels(SplitBox(seg, ids), Shape)

\* the call raises ValueError: coords.min() of an empty mask in get_bbox, or
\* _boundary_pmap.max() of an empty crop
SplitRaises(seg, ids) ==
    IF LabelMask(seg, ids) = {} THEN TRUE ELSE SplitCrop(seg, ids) = {}

\* watershed(_boundary_pmap, markers=_seeds, compactness=0.001) on the crop:
\* every labelling the flooding can return, whatever the cost map is.  A seed
\* voxel keeps its seed value, every other voxel is flooded from some seed
\* of the crop, and a crop without seeds stays 0.
Watershed(crop, seeds) ==
    UNION { { f \in [crop -> {0} \cup present] :
                \A v \in crop :
                    /\ seeds[v] # 0 => f[v] = seeds[v]
                    /\ seeds[v] = 0 => (f[v] = 0 <=> present = {}) }
            : present \in { { seeds[v] : v \in crop } \ {0} } }

\* mutant of Written: the write ignores the crop mask
WrittenWholeCrop(seg, ids, crop, v) == v \in crop

\* c_segmentation[bbox][_mask] = local_seg[_mask].ravel():
\* a voxel is written iff it is in the crop and its label is in all_idx
Written(seg, ids, crop, v) == v \in crop /\ seg[v] \in ids

\* the returned volume, given the labelling the flooding returned;
\* local_seg += max_id + 1 comes before the write
split_from_seeds(seg, local_seg, ids) ==
    LET max_id == MaxOf(seg)
        crop == DOMAIN local_seg
    IN  [ v \in DOMAIN seg |->
            IF Written(seg, ids, crop, v) THEN local_seg[v] + max_id + 1
                                          ELSE seg[v] ]

Volumes == [VoxelsOf(Shape) -> InputLabels]

NoVolume == [ v \in VoxelsOf(Shape) |-> 0 ]

IdleSplit ==
    /\ segm = NoVolume
    /\ pre = NoVolume
    /\ all_idx = {}
    /\ nsplit = 0

----------------------------------------------------------------------------
(* fix_over_segmentation                                                   *)

\* nuclei_idx is None or n_idx in nuclei_idx
Selected(filter, n_idx) == filter.none \/ n_idx \in filter.ids

NoFilter == [none |-> TRUE, ids |-> {}]

\* new_value = value['over_seg_idx'][0]
Representative(value) == value.over_seg_idx[1]

SeqRange(q) == { q[i] : i \in 1 .. Len(q) }

\* one round of the outer loop: for every c_idx of the record,
\* _segmentation[segmentation == c_idx] = new_value, where segmentation is
\* the volume the function received
MergeRecord(work, segmentation, value) ==
    [ v \in DOMAIN work |->
        IF segmentation[v] \in SeqRange(value.over_seg_idx)
            THEN Representative(value)
            ELSE work[v] ]

\* dicts are visited in insertion order, and find_potential_over_seg inserts
\* by ascending nucleus id
NextKey(keys) == SetMin(keys)

IdleMerge ==
    /\ nuclei_assignments = <<>>
    /\ nuclei_idx = NoFilter
    /\ todo = {}

IdleStats ==
    /\ cell_counts = <<>>
    /\ nuclei_counts = <<>>
    /\ intersection_counts = <<>>

IdleLoop ==
    /\ idx = -1
    /\ r_intersection = <<>>
    /\ seg_idx = <<>>

IdleCount ==
    /\ n_seg = <<>>
    /\ wk = <<>>
    /\ block = 1

IdleParams ==
    /\ threshold_merge = <<0, 1>>
    /\ threshold_split = <<0, 1>>
    /\ quantiles = << <<0, 1>>, <<1, 1>> >>

IdleAnalysis ==
    /\ IdleStats
    /\ IdleLoop
    /\ IdleCount
    /\ IdleParams
    /\ cell_assignments = <<>>

----------------------------------------------------------------------------
(* numba_find_overlaps                                                     *)

\* arithmetic of the counter arrays' element type
Wrap(n) == n % (2 ^ CounterBits)

\* cell_seg.shape
ShapeOf(seg) == << SetMax(Coords(DOMAIN seg, 1)) + 1,
                   SetMax(Coords(DOMAIN seg, 2)) + 1,
                   SetMax(Coords(DOMAIN seg, 3)) + 1 >>

\* np.zeros(seg.max() + 1) and np.zeros((cell_seg.max() + 1, n_seg.max() + 1))
ZeroCounts(seg) == [ i \in 0 .. MaxOf(seg) |-> 0 ]

ZeroOverlaps(cell, nuc) == [ i \in 0 .. MaxOf(cell) |-> [ j \in 0 .. MaxOf(nuc) |-> 0 ] ]

\* the k-th voxel (k from 0) of plane x in the order of the two inner loops
PlaneVoxel(shape, x, k) == << x, k \div shape[3], k % shape[3] >>

PlaneSize(shape) == shape[2] * shape[3]

\* the k-th voxel of the volume in the order of the three loops, as one
\* thread visits them
LoopVoxel(shape, k) ==
    PlaneVoxel(shape, k \div PlaneSize(shape), k % PlaneSize(shape))

\* the statistics after `times` rounds of the loop body (lines 49-58) on
\* voxels labelled seg_id and n_id, run without interruption
CountVoxels(stats, seg_id, n_id, times) ==
    [ cell |-> IF seg_id > 0
                 THEN [stats.cell EXCEPT ![seg_id] = Wrap(@ + times)]
                 ELSE stats.cell,
      nuc  |-> IF n_id > 0
                 THEN [stats.nuc EXCEPT ![n_id] = Wrap(@ + times)]
                 ELSE stats.nuc,
      ovl  |-> IF n_id > 0 /\ seg_id > 0
                 THEN [stats.ovl EXCEPT ![seg_id][n_id] = Wrap(@ + times)]
                 ELSE stats.ovl ]

\* A worker's place in its plane is pos = 3 * k + c: voxel k, and c the
\* next of the three increments of the loop body (0: cell_counts,
\* 1: n_counts, 2: overlap_counts).  An increment is a read and a write.
PlaceEnd(shape) == 3 * PlaneSize(shape)

\* the guard of increment c at voxel v (lines 50, 54, 57)
Guard(cell, nuc, v, c) ==
    CASE c = 0 -> cell[v] > 0
      [] c = 1 -> nuc[v] > 0
      [] c = 2 -> nuc[v] > 0 /\ cell[v] > 0

\* the first place from pos on whose increment is executed
NextPlace(cell, nuc, x, pos) ==
    LET shape == ShapeOf(cell)
        live == { p \in pos .. PlaceEnd(shape) - 1 :
                    Guard(cell, nuc, PlaneVoxel(shape, x, p \div 3), p % 3) }
    IN  IF live = {} THEN PlaceEnd(shape) ELSE SetMin(live)

\* the counter an increment at a place reads, and the arrays after its write
ReadCounter(stats, cell, nuc, x, pos) ==
    LET v == PlaneVoxel(ShapeOf(cell), x, pos \div 3)
    IN  CASE pos % 3 = 0 -> stats.cell[cell[v]]
          [] pos % 3 = 1 -> stats.nuc[nuc[v]]
          [] pos % 3 = 2 -> stats.ovl[cell[v]][nuc[v]]

WriteCounter(stats, cell, nuc, x, pos, value) ==
    LET v == PlaneVoxel(ShapeOf(cell), x, pos \div 3)
    IN  CASE pos % 3 = 0 -> [stats EXCEPT !.cell[cell[v]] = value]
          [] pos % 3 = 1 -> [stats EXCEPT !.nuc[nuc[v]] = value]
          [] pos % 3 = 2 -> [stats EXCEPT !.ovl[cell[v]][nuc[v]] = value]

\* the three arrays as one record
Stats == [cell |-> cell_counts, nuc |-> nuclei_counts, ovl |-> intersection_counts]

SetStats(stats) ==
    /\ cell_counts' = stats.cell
    /\ nuclei_counts' = stats.nuc
    /\ intersection_counts' = stats.ovl

\* one worker per plane of the first axis (numba.prange), before its loop
StartWorkers(cell, nuc) ==
    [ x \in 0 .. ShapeOf(cell)[1] - 1 |->
        [ pos |-> NextPlace(cell, nuc, x, 0), rd |-> FALSE, tmp |-> 0 ] ]

\* a worker reads the counter of its next increment
WorkerRead(x) ==
    /\ x \in DOMAIN wk
    /\ wk[x].pos < PlaceEnd(ShapeOf(segm))
    /\ ~wk[x].rd
    /\ wk' = [wk EXCEPT ![x].rd = TRUE,
                         ![x].tmp = ReadCounter(Stats, segm, n_seg, x, wk[x].pos)]
    /\ UNCHANGED statVars

\* and writes it back, incremented
WorkerWrite(x) ==
    /\ x \in DOMAIN wk
    /\ wk[x].rd
    /\ SetStats(WriteCounter(Stats, segm, n_seg, x, wk[x].pos, Wrap(wk[x].tmp + 1)))
    /\ wk' = [wk EXCEPT ![x].rd = FALSE,
                         ![x].pos = NextPlace(segm, n_seg, x, wk[x].pos + 1)]

WorkersDone == \A x \in DOMAIN wk : wk[x].pos = PlaceEnd(ShapeOf(segm))

----------------------------------------------------------------------------
(* get_quantile_mask                                                       *)
(* A one-dimensional array is a function on 0 .. n-1.  A fraction, a       *)
(* threshold or a ratio is a pair <<numerator, denominator>>.              *)

Size(a) == Cardinality(DOMAIN a)

\* the k-th entry (k from 0) of the array sorted in ascending order
KthSmallest(counts, k) ==
    CHOOSE c \in { counts[i] : i \in DOMAIN counts } :
        /\ Cardinality({ i \in DOMAIN counts : counts[i] < c }) <= k
        /\ k < Cardinality({ i \in DOMAIN counts : counts[i] <= c })

\* np.quantile(counts, q), method 'linear': the value at the virtual index
\* q * (n - 1) of the sorted array, interpolated between its neighbours;
\* returned as a fraction over the denominator of q
Quantile(counts, q) ==
    LET pos == q[1] * (Size(counts) - 1)
        lo  == pos \div q[2]
        rem == pos % q[2]
    IN  IF rem = 0
            THEN << KthSmallest(counts, lo) * q[2], q[2] >>
            ELSE << KthSmallest(counts, lo) * q[2]
                    + rem * (KthSmallest(counts, lo + 1) - KthSmallest(counts, lo)),
                    q[2] >>

\* mutant of get_quantile_mask: the two comparisons are not strict
get_quantile_mask_closed(counts, quantile) ==
    LET low == Quantile(counts, quantile[1])
        up  == Quantile(counts, quantile[2])
    IN  [ i \in DOMAIN counts |->
            /\ low[1] <= counts[i] * low[2]
            /\ up[1] >= counts[i] * up[2] ]

\* mask_low = quantile(counts, q0) < counts; mask_up = quantile(counts, q1) > counts
get_quantile_mask(counts, quantile) ==
    LET low == Quantile(counts, quantile[1])
        up  == Quantile(counts, quantile[2])
    IN  [ i \in DOMAIN counts |->
            /\ low[1] < counts[i] * low[2]
            /\ up[1] > counts[i] * up[2] ]

----------------------------------------------------------------------------
(* find_potential_under_seg, find_potential_over_seg                       *)

\* np.nonzero(row)[0]: the indices of the non-zero entries, ascending
Nonzero(row) == SortedSeq({ i \in DOMAIN row : row[i] # 0 })

\* r_i > threshold for r_i = a / b as numpy divides two unsigned scalars:
\* a / 0 is inf for a > 0 (a warning, no exception) and nan for a = 0
RatioExceeds(r, threshold) ==
    IF r[2] = 0 THEN r[1] > 0
    ELSE r[1] * threshold[2] > threshold[1] * r[2]

\* one round of the loop of find_potential_under_seg, for cell idx:
\* n_idx, r_intersection and under_seg_n_idx
UnderRound(n_counts, inter, threshold, n_mask, i) ==
    LET n_idx == Nonzero(inter[i])
        r == [ k \in 1 .. Len(n_idx) |-> << inter[i][n_idx[k]], n_counts[n_idx[k]] >> ]
        keep == { k \in 1 .. Len(n_idx) :
                    RatioExceeds(r[k], threshold) /\ n_mask[n_idx[k]] }
    IN  [ n_idx |-> n_idx,
          r_intersection |-> r,
          under_seg_idx |-> [ k \in 1 .. Cardinality(keep) |->
                                n_idx[KthSmallest([ j \in keep |-> j ], k - 1)] ] ]

\* one round of the loop of find_potential_over_seg, for nucleus idx:
\* c_idx, r_intersection and over_seg_c_idx
OverRound(n_counts, inter, threshold, i) ==
    LET c_idx == Nonzero([ c \in DOMAIN inter |-> inter[c][i] ])
        r == [ k \in 1 .. Len(c_idx) |-> << inter[c_idx[k]][i], n_counts[i] >> ]
        keep == { k \in 1 .. Len(c_idx) : RatioExceeds(r[k], threshold) }
    IN  [ c_idx |-> c_idx,
          r_intersection |-> r,
          over_seg_idx |-> [ k \in 1 .. Cardinality(keep) |->
                               c_idx[KthSmallest([ j \in keep |-> j ], k - 1)] ] ]

\* cell_assigment[idx] = {...} / nuclei_assigment[idx] = {...}
Put(dict, key, value) ==
    [ k \in DOMAIN dict \cup {key} |-> IF k = key THEN value ELSE dict[k] ]

----------------------------------------------------------------------------
(* Specification of split_from_seeds, called repeatedly on its own result  *)
(* as fix_under_segmentation does                                          *)

InitSplit ==
    /\ pc = "split_call"
    /\ segm \in Volumes
    /\ pre = segm
    /\ all_idx = {}
    /\ nsplit = 0
    /\ mask = {}
    /\ pixel_toll = 0
    /\ bbox = NoBox
    /\ IdleMerge
    /\ IdleAnalysis

\* one call that returns
SplitReturns ==
    /\ pc \in {"split_call", "split_done"}
    /\ nsplit < MaxSplits
    /\ \E ids \in (SUBSET InputIds) \ {{}} :
          /\ LabelMask(segm, ids) # {}
          /\ \E box \in {SplitBox(segm, ids)} :
              \E crop \in {BoxVoxels(box, Shape)} :
                /\ crop # {}
                /\ \E seeds \in [crop -> 0 .. NumSeeds] :
                      \E local_seg \in Watershed(crop, seeds) :
                          segm' = split_from_seeds(segm, local_seg, ids)
                /\ bbox' = box
          /\ all_idx' = ids
          /\ mask' = LabelMask(segm, ids)
    /\ pre' = segm
    /\ nsplit' = nsplit + 1
    /\ pc' = "split_done"
    /\ UNCHANGED <<pixel_toll, mergeVars, todo, anaVars>>

\* one call that raises: nothing is returned and the caller's volume stays
SplitFails ==
    /\ pc \in {"split_call", "split_done"}
    /\ nsplit < MaxSplits
    /\ \E ids \in (SUBSET InputIds) \ {{}} :
          /\ SplitRaises(segm, ids)
          /\ all_idx' = ids
          /\ mask' = LabelMask(segm, ids)
    /\ pc' = "split_raised"
    /\ UNCHANGED <<segm, pre, nsplit, bbox, pixel_toll, mergeVars, todo, anaVars>>

NextSplit == SplitReturns \/ SplitFails

SpecSplit == InitSplit /\ [][NextSplit]_vars

----------------------------------------------------------------------------
(* Specification of fix_over_segmentation on sets of records               *)

\* the over_seg_idx lists find_potential_over_seg can emit: two or more cell
\* ids in ascending order
OverSegLists == { SortedSeq(T) : T \in { U \in SUBSET (MergeLabels \ {0}) :
                                            Cardinality(U) >= 2 } }

RecordSets ==
    UNION { [ K -> [c_idx : OverSegLists, over_seg_idx : OverSegLists] ]
            : K \in SUBSET (1 .. MaxRecordNucleus) }

Filters ==
    {NoFilter} \cup { [none |-> FALSE, ids |-> I]
                      : I \in SUBSET (1 .. MaxRecordNucleus) }

InitMerge ==
    /\ pc = "merge_loop"
    /\ segm \in [VoxelsOf(MergeShape) -> MergeLabels]
    /\ pre = segm
    /\ nuclei_assignments \in RecordSets
    /\ \A n \in DOMAIN nuclei_assignments :
          /\ nuclei_assignments[n].c_idx = nuclei_assignments[n].over_seg_idx
          /\ \A c \in SeqRange(nuclei_assignments[n].over_seg_idx) :
                \E v \in DOMAIN segm : segm[v] = c
    /\ nuclei_idx \in Filters
    /\ todo = DOMAIN nuclei_assignments
    /\ mask = {}
    /\ pixel_toll = 0
    /\ bbox = NoBox
    /\ all_idx = {}
    /\ nsplit = 0
    /\ IdleAnalysis

\* a round of the loop whose record passes the filter
MergeApply ==
    /\ pc = "merge_loop"
    /\ todo # {}
    /\ Selected(nuclei_idx, NextKey(todo))
    /\ segm' = MergeRecord(segm, pre, nuclei_assignments[NextKey(todo)])
    /\ todo' = todo \ {NextKey(todo)}
    /\ UNCHANGED <<pc, pre, bboxVars, splitVars, mergeVars, anaVars>>

\* a round of the loop whose record the filter leaves out
MergeSkip ==
    /\ pc = "merge_loop"
    /\ todo # {}
    /\ ~Selected(nuclei_idx, NextKey(todo))
    /\ todo' = todo \ {NextKey(todo)}
    /\ UNCHANGED <<pc, segm, pre, bboxVars, splitVars, mergeVars, anaVars>>

MergeReturn ==
    /\ pc = "merge_loop"
    /\ todo = {}
    /\ pc' = "merge_done"
    /\ UNCHANGED <<segm, pre, bboxVars, splitVars, mergeVars, todo, anaVars>>

NextMerge == MergeApply \/ MergeSkip \/ MergeReturn

SpecMerge == InitMerge /\ [][NextMerge]_vars

----------------------------------------------------------------------------
(* Specification of find_potential_under_seg                               *)

RECURSIVE SumOver(_, _)
\* the sum of f over the set S of arguments
SumOver(f, S) ==
    IF S = {} THEN 0
    ELSE LET x == CHOOSE y \in S : TRUE IN f[x] + SumOver(f, S \ {x})

\* arrays indexed by the ids 0 .. n whose entry (or row and column) of the
\* background id 0 is 0, as in the statistics of a counter
CountArrays(ids, values) ==
    { [ i \in ids |-> IF i = 0 THEN 0 ELSE f[i] ] : f \in [ids \ {0} -> values] }

OverlapMatrices(cells, nuclei, values) ==
    { [ c \in cells |-> [ n \in nuclei |-> IF c = 0 \/ n = 0 THEN 0 ELSE f[c][n] ] ]
      : f \in [cells \ {0} -> [nuclei \ {0} -> values]] }

StatsInput(cells, nuclei) ==
    /\ nuclei_counts \in CountArrays(nuclei, CountValues)
    /\ intersection_counts \in OverlapMatrices(cells, nuclei, OverlapValues)
    /\ cell_counts = [ c \in cells |-> SumOver(intersection_counts[c], nuclei) ]

IdleVolumes ==
    /\ IdleSplit
    /\ mask = {}
    /\ pixel_toll = 0
    /\ bbox = NoBox

InitUnder ==
    /\ pc = "under_loop"
    /\ \E n \in 2 .. MaxNucleus : StatsInput(UnderCells, 0 .. n)
    /\ threshold_split \in SplitThresholds
    /\ quantiles \in QuantileBounds
    /\ threshold_merge = <<0, 1>>
    /\ cell_assignments = <<>>
    /\ IdleLoop
    /\ IdleCount
    /\ IdleMerge
    /\ IdleVolumes

\* one round of the loop over the cell ids
FindUnderRound ==
    /\ pc = "under_loop"
    /\ idx + 1 < Size(cell_counts)
    /\ \E rnd \in { UnderRound(nuclei_counts, intersection_counts, threshold_split,
                                get_quantile_mask(nuclei_counts, quantiles), idx + 1) } :
          /\ r_intersection' = rnd.r_intersection
          /\ seg_idx' = rnd.under_seg_idx
          /\ cell_assignments' =
                IF Len(rnd.under_seg_idx) > 1
                    THEN Put(cell_assignments, idx + 1,
                             [ n_idx |-> rnd.n_idx,
                               under_seg_idx |-> rnd.under_seg_idx,
                               is_under_seg |-> TRUE,
                               r_intersection |-> rnd.r_intersection ])
                    ELSE cell_assignments
    /\ idx' = idx + 1
    /\ UNCHANGED <<pc, bboxVars, segm, pre, splitVars, mergeVars, todo,
                   statVars, paramVars, countVars>>

FindUnderReturn ==
    /\ pc = "under_loop"
    /\ idx + 1 = Size(cell_counts)
    /\ pc' = "under_done"
    /\ UNCHANGED <<bboxVars, segm, pre, splitVars, mergeVars, todo,
                   statVars, paramVars, countVars, loopVars, cell_assignments>>

NextUnder == FindUnderRound \/ FindUnderReturn

SpecUnder == InitUnder /\ [][NextUnder]_vars

----------------------------------------------------------------------------
(* Specification of find_potential_over_seg                                *)

InitOver ==
    /\ pc = "over_loop"
    /\ StatsInput(OverCells, 0 .. MaxRecordNucleus)
    /\ threshold_merge \in MergeThresholds
    /\ threshold_split = <<0, 1>>
    /\ quantiles = << <<0, 1>>, <<1, 1>> >>
    /\ cell_assignments = <<>>
    /\ IdleLoop
    /\ IdleCount
    /\ IdleMerge
    /\ IdleVolumes

\* one round of the loop over the nucleus ids
FindOverRound ==
    /\ pc = "over_loop"
    /\ idx + 1 < Size(nuclei_counts)
    /\ \E rnd \in { OverRound(nuclei_counts, intersection_counts,
                               threshold_merge, idx + 1) } :
          /\ r_intersection' = rnd.r_intersection
          /\ seg_idx' = rnd.over_seg_idx
          /\ nuclei_assignments' =
                IF Len(rnd.over_seg_idx) > 1
                    THEN Put(nuclei_assignments, idx + 1,
                             [ c_idx |-> rnd.c_idx,
                               over_seg_idx |-> rnd.over_seg_idx,
                               is_over_seg |-> TRUE,
                               r_intersection |-> rnd.r_intersection ])
                    ELSE nuclei_assignments
    /\ idx' = idx + 1
    /\ UNCHANGED <<pc, bboxVars, segm, pre, splitVars, nuclei_idx, todo,
                   statVars, paramVars, countVars, cell_assignments>>

FindOverReturn ==
    /\ pc = "over_loop"
    /\ idx + 1 = Size(nuclei_counts)
    /\ pc' = "over_done"
    /\ UNCHANGED <<bboxVars, segm, pre, splitVars, mergeVars, todo,
                   statVars, paramVars, countVars, loopVars, cell_assignments>>

NextOver == FindOverRound \/ FindOverReturn

SpecOver == InitOver /\ [][NextOver]_vars

----------------------------------------------------------------------------
(* The passes as whole functions, and fix_under_segmentation               *)

\* find_potential_over_seg: the records of the nuclei with two or more
\* qualifying cells
find_potential_over_seg(n_counts, inter, threshold) ==
    LET round(i) == OverRound(n_counts, inter, threshold, i)
    IN  [ i \in { n \in DOMAIN n_counts : Len(round(n).over_seg_idx) > 1 } |->
            [ c_idx |-> round(i).c_idx,
              over_seg_idx |-> round(i).over_seg_idx,
              is_over_seg |-> TRUE,
              r_intersection |-> round(i).r_intersection ] ]

\* find_potential_under_seg: the records of the cells with two or more
\* qualifying nuclei
find_potential_under_seg(n_counts, c_counts, inter, threshold, quantiles_clip) ==
    LET n_mask == get_quantile_mask(n_counts, quantiles_clip)
        round(i) == UnderRound(n_counts, inter, threshold, n_mask, i)
    IN  [ i \in { c \in DOMAIN c_counts : Len(round(c).under_seg_idx) > 1 } |->
            [ n_idx |-> round(i).n_idx,
              under_seg_idx |-> round(i).under_seg_idx,
              is_under_seg |-> TRUE,
              r_intersection |-> round(i).r_intersection ] ]

RECURSIVE MergeLoop(_, _, _, _, _)
\* the loop of fix_over_segmentation over the records still to visit
MergeLoop(work, segmentation, assignments, filter, keys) ==
    IF keys = {} THEN work
    ELSE LET n == NextKey(keys)
         IN  MergeLoop(IF Selected(filter, n)
                           THEN MergeRecord(work, segmentation, assignments[n])
                           ELSE work,
                       segmentation, assignments, filter, keys \ {n})

fix_over_segmentation(segmentation, assignments, filter) ==
    MergeLoop(segmentation, segmentation, assignments, filter, DOMAIN assignments)

\* _nuclei_seeds: the voxels of the i-th nucleus of under_seg_idx get i
\* (from 1), later nuclei overwriting earlier ones, all others 0
NucleiSeeds(nuc, under_seg_idx) ==
    [ v \in DOMAIN nuc |->
        LET hits == { i \in 1 .. Len(under_seg_idx) : under_seg_idx[i] = nuc[v] }
        IN  IF hits = {} THEN 0 ELSE SetMax(hits) ]

----------------------------------------------------------------------------
(* Specification of fix_over_under_segmentation_from_nuclei                *)

\* input cell volumes: a corner voxel and the rest, one cell filling the
\* volume, one cell per plane of the second axis, one cell per plane of the
\* first axis
CornerCells == [ v \in VoxelsOf(Shape) |-> IF v = <<0, 0, 0>> THEN 1 ELSE 2 ]

OneCell == [ v \in VoxelsOf(Shape) |-> 1 ]

RowCells == [ v \in VoxelsOf(Shape) |-> v[2] + 1 ]

PlaneCells == [ v \in VoxelsOf(Shape) |-> v[1] + 1 ]

\* input nuclei volumes: one nucleus on the slab of third coordinate 0,
\* two nuclei of one voxel beside a nucleus of two voxels, one nucleus
\* filling the volume
SlabNucleus == [ v \in VoxelsOf(Shape) |-> IF v[3] = 0 THEN 1 ELSE 0 ]

ThreeNuclei ==
    [ v \in VoxelsOf(Shape) |->
        CASE v = <<0, 0, 0>> -> 1
          [] v = <<1, 0, 1>> -> 2
          [] v \in { <<0, 1, 0>>, <<0, 1, 1>> } -> 3
          [] OTHER -> 0 ]

FullNucleus == [ v \in VoxelsOf(Shape) |-> 1 ]

\* the pairs (cell_seg, nuclei_seg) the function is called with
OrchInputs ==
    { <<CornerCells, SlabNucleus>>, <<OneCell, ThreeNuclei>>,
      <<RowCells, ThreeNuclei>>, <<PlaneCells, FullNucleus>> }

\* the defaults of the signature: 0.33, 0.66 and (0.3, 0.99)
DefaultMerge == <<33, 100>>

DefaultSplit == <<66, 100>>

DefaultQuantiles == << <<3, 10>>, <<99, 100>> >>

\* numba_find_overlaps(volume, nuclei_seg) is entered
StartMeasure(volume) ==
    /\ cell_counts' = ZeroCounts(volume)
    /\ nuclei_counts' = ZeroCounts(n_seg)
    /\ intersection_counts' = ZeroOverlaps(volume, n_seg)
    /\ wk' = StartWorkers(volume, n_seg)

InitOrch ==
    /\ pc = "measure1"
    /\ \E input \in OrchInputs :
          /\ segm = input[1]
          /\ n_seg = input[2]
    /\ pre = segm
    /\ cell_counts = ZeroCounts(segm)
    /\ nuclei_counts = ZeroCounts(n_seg)
    /\ intersection_counts = ZeroOverlaps(segm, n_seg)
    /\ wk = StartWorkers(segm, n_seg)
    /\ block = 1
    /\ threshold_merge = DefaultMerge
    /\ threshold_split = DefaultSplit
    /\ quantiles = DefaultQuantiles
    /\ cell_assignments = <<>>
    /\ IdleMerge
    /\ IdleLoop
    /\ all_idx = {}
    /\ nsplit = 0
    /\ mask = {}
    /\ pixel_toll = 0
    /\ bbox = NoBox

Measuring == pc \in {"measure1", "measure2"}

OrchRead ==
    /\ Measuring
    /\ \E x \in DOMAIN wk : WorkerRead(x)
    /\ UNCHANGED <<pc, bboxVars, segm, pre, splitVars, mergeVars, todo,
                   paramVars, loopVars, n_seg, block, cell_assignments>>

OrchWrite ==
    /\ Measuring
    /\ \E x \in DOMAIN wk : WorkerWrite(x)
    /\ UNCHANGED <<pc, bboxVars, segm, pre, splitVars, mergeVars, todo,
                   paramVars, loopVars, n_seg, block, cell_assignments>>

\* lines 217-224: the records of the first measurement, the merge pass,
\* and the entry of the second measurement
OrchMerge ==
    /\ pc = "measure1"
    /\ WorkersDone
    /\ \E recs \in { find_potential_over_seg(nuclei_counts, intersection_counts,
                                              threshold_merge) } :
        \E merged \in { fix_over_segmentation(segm, recs, NoFilter) } :
          /\ nuclei_assignments' = recs
          /\ segm' = merged
          /\ StartMeasure(merged)
    /\ pc' = "measure2"
    /\ UNCHANGED <<bboxVars, pre, splitVars, nuclei_idx, todo, paramVars,
                   loopVars, n_seg, block, cell_assignments>>

\* lines 225-231: the records of the second measurement; the loop of
\* fix_under_segmentation is entered
OrchAnalyse ==
    /\ pc = "measure2"
    /\ WorkersDone
    /\ cell_assignments' = find_potential_under_seg(nuclei_counts, cell_counts,
                                intersection_counts, threshold_split, quantiles)
    /\ todo' = DOMAIN cell_assignments'
    /\ pc' = "split_loop"
    /\ UNCHANGED <<bboxVars, segm, pre, splitVars, mergeVars, statVars,
                   paramVars, loopVars, countVars>>

\* one round of the loop of fix_under_segmentation whose split returns
OrchSplit ==
    /\ pc = "split_loop"
    /\ todo # {}
    /\ \E c_idx \in { NextKey(todo) } :
          /\ ~SplitRaises(segm, {c_idx})
          /\ \E seeds \in { NucleiSeeds(n_seg, cell_assignments[c_idx].under_seg_idx) } :
              \E local_seg \in Watershed(SplitCrop(segm, {c_idx}), seeds) :
                  segm' = split_from_seeds(segm, local_seg, {c_idx})
          /\ all_idx' = {c_idx}
          /\ todo' = todo \ {c_idx}
    /\ nsplit' = nsplit + 1
    /\ UNCHANGED <<pc, bboxVars, pre, mergeVars, statVars, paramVars,
                   loopVars, countVars, cell_assignments>>

\* one round whose split raises: the exception leaves the function
OrchSplitRaises ==
    /\ pc = "split_loop"
    /\ todo # {}
    /\ SplitRaises(segm, {NextKey(todo)})
    /\ all_idx' = {NextKey(todo)}
    /\ pc' = "orch_raised"
    /\ UNCHANGED <<bboxVars, segm, pre, nsplit, mergeVars, todo, statVars,
                   paramVars, loopVars, countVars, cell_assignments>>

OrchReturn ==
    /\ pc = "split_loop"
    /\ todo = {}
    /\ pc' = "orch_done"
    /\ UNCHANGED <<bboxVars, segm, pre, splitVars, mergeVars, todo, statVars,
                   paramVars, loopVars, countVars, cell_assignments>>

NextOrch ==
    \/ OrchRead
    \/ OrchWrite
    \/ OrchMerge
    \/ OrchAnalyse
    \/ OrchSplit
    \/ OrchSplitRaises
    \/ OrchReturn

SpecOrch == InitOrch /\ [][NextOrch]_vars

----------------------------------------------------------------------------
(* Specifications of numba_find_overlaps: run by one thread, where prange  *)
(* is an ordinary loop, and run by one worker per plane                    *)

IdleRest ==
    /\ pre = segm
    /\ IdleMerge
    /\ IdleLoop
    /\ IdleParams
    /\ cell_assignments = <<>>
    /\ all_idx = {}
    /\ nsplit = 0
    /\ mask = {}
    /\ pixel_toll = 0
    /\ bbox = NoBox

CountInput ==
    /\ segm \in [VoxelsOf(CountShape) -> CountCellLabels]
    /\ n_seg \in [VoxelsOf(CountShape) -> CountNucleiLabels]
    /\ cell_counts = ZeroCounts(segm)
    /\ nuclei_counts = ZeroCounts(n_seg)
    /\ intersection_counts = ZeroOverlaps(segm, n_seg)

InitSeqCount ==
    /\ pc = "count"
    /\ CountInput
    /\ block \in BlockSizes
    /\ wk = 0
    /\ IdleRest

\* the loop body on the next run of voxels
SeqCountVoxel ==
    /\ pc = "count"
    /\ wk < Cardinality(DOMAIN segm)
    /\ \E v \in { LoopVoxel(ShapeOf(segm), wk) } :
          SetStats(CountVoxels(Stats, segm[v], n_seg[v], block))
    /\ wk' = wk + 1
    /\ UNCHANGED <<pc, bboxVars, segm, pre, splitVars, mergeVars, todo,
                   paramVars, loopVars, n_seg, block, cell_assignments>>

SeqCountReturn ==
    /\ pc = "count"
    /\ wk = Cardinality(DOMAIN segm)
    /\ pc' = "count_done"
    /\ UNCHANGED <<bboxVars, segm, pre, splitVars, mergeVars, todo, statVars,
                   paramVars, loopVars, countVars, cell_assignments>>

NextSeqCount == SeqCountVoxel \/ SeqCountReturn

SpecSeqCount == InitSeqCount /\ [][NextSeqCount]_vars

InitParCount ==
    /\ pc = "count"
    /\ CountInput
    /\ block = 1
    /\ wk = StartWorkers(segm, n_seg)
    /\ IdleRest

ParCountRead ==
    /\ pc = "count"
    /\ \E x \in DOMAIN wk : WorkerRead(x)
    /\ UNCHANGED <<pc, bboxVars, segm, pre, splitVars, mergeVars, todo,
                   paramVars, loopVars, n_seg, block, cell_assignments>>

ParCountWrite ==
    /\ pc = "count"
    /\ \E x \in DOMAIN wk : WorkerWrite(x)
    /\ UNCHANGED <<pc, bboxVars, segm, pre, splitVars, mergeVars, todo,
                   paramVars, loopVars, n_seg, block, cell_assignments>>

ParCountReturn ==
    /\ pc = "count"
    /\ WorkersDone
    /\ pc' = "count_done"
    /\ UNCHANGED <<bboxVars, segm, pre, splitVars, mergeVars, todo, statVars,
                   paramVars, loopVars, countVars, cell_assignments>>

NextParCount == ParCountRead \/ ParCountWrite \/ ParCountReturn

SpecParCount == InitParCount /\ [][NextParCount]_vars

----------------------------------------------------------------------------
(* Specification of get_bbox on every non-empty mask                       *)

InitBBox ==
    /\ pc = "bbox_call"
    /\ mask \in (SUBSET VoxelsOf(Shape)) \ {{}}
    /\ pixel_toll \in 0 .. MaxToll
    /\ bbox = NoBox
    /\ IdleSplit
    /\ IdleMerge
    /\ IdleAnalysis

GetBBox ==
    /\ pc = "bbox_call"
    /\ bbox' = get_bbox(mask, Shape, pixel_toll)
    /\ pc' = "bbox_done"
    /\ UNCHANGED <<mask, pixel_toll, segm, pre, splitVars, mergeVars, todo, anaVars>>

NextBBox == GetBBox

SpecBBox == InitBBox /\ [][NextBBox]_vars

----------------------------------------------------------------------------
(* Claims about get_bbox                                                   *)

\* C5: for every non-empty mask and every tolerance >= 0 the returned box
\* has, on each axis, lower bound max(min(coord) - tolerance, 0), an upper
\* bound of at most the axis size, and an upper bound of at least
\* lower + 1 (non-zero extent).
C5_BoxExtent ==
    pc = "bbox_done" =>
        \A axis \in 1 .. 3 :
            /\ Lower(bbox, axis) = Max2(SetMin(Coords(mask, axis)) - pixel_toll, 0)
            /\ Upper(bbox, axis) <= Shape[axis]
            /\ Upper(bbox, axis) >= Lower(bbox, axis) + 1

\* C10: with tolerance 0 the returned box contains every true voxel of the
\* mask on all three axes.
C10_BoxCoversMask ==
    (pc = "bbox_done" /\ pixel_toll = 0) =>
        \A v \in mask : InBox(bbox, Shape, v)

----------------------------------------------------------------------------
(* Claims about split_from_seeds                                           *)

\* C2: after a split of one cell id C that is present in the volume, every
\* voxel labelled C before the split carries a label strictly greater than
\* the pre-split maximum label of the volume.
C2_SplitReplacesCell ==
    (pc = "split_done" /\ Cardinality(all_idx) = 1) =>
        \A v \in DOMAIN pre :
            pre[v] \in all_idx => segm[v] > MaxOf(pre)

----------------------------------------------------------------------------
(* Claims about fix_over_segmentation                                      *)

\* the records the pass applied
Applied == { n \in DOMAIN nuclei_assignments : Selected(nuclei_idx, n) }

\* C1: after one merge pass over any set of records, for every applied
\* record every voxel that carried one of its non-representative qualifying
\* cell ids carries its representative, and no voxel of the volume retains
\* such an id.
C1_MergeToRepresentative ==
    pc = "merge_done" =>
        \A n \in Applied :
            \A c \in SeqRange(nuclei_assignments[n].over_seg_idx)
                        \ {Representative(nuclei_assignments[n])} :
                /\ \A v \in DOMAIN pre :
                      pre[v] = c => segm[v] = Representative(nuclei_assignments[n])
                /\ \A v \in DOMAIN segm : segm[v] # c

----------------------------------------------------------------------------
(* Claims about the analysis passes                                        *)

FullRange == << <<0, 1>>, <<1, 1>> >>

\* a round of the under-segmentation loop has run, under bounds (0, 1)
UnderRoundDone ==
    /\ pc \in {"under_loop", "under_done"}
    /\ idx >= 0
    /\ quantiles = FullRange

\* nuclei whose share of their own voxels inside cell idx exceeds the
\* split threshold
ShareExceeds ==
    { j \in DOMAIN nuclei_counts :
        /\ nuclei_counts[j] > 0
        /\ intersection_counts[idx][j] * threshold_split[2]
             > threshold_split[1] * nuclei_counts[j] }

LargestCount == SetMax({ nuclei_counts[j] : j \in DOMAIN nuclei_counts })

SmallestCount == SetMin({ nuclei_counts[j] : j \in DOMAIN nuclei_counts })

\* the scenario: nuclei_counts = [0,100,100], overlap row of cell 1 =
\* [0,90,10], threshold_split = 0.5, the round of cell 1 has run
Scenario ==
    /\ UnderRoundDone
    /\ idx = 1
    /\ nuclei_counts = [ j \in 0 .. 2 |-> IF j = 0 THEN 0 ELSE 100 ]
    /\ intersection_counts[1] = [ j \in 0 .. 2 |-> CASE j = 0 -> 0
                                                       [] j = 1 -> 90
                                                       [] j = 2 -> 10 ]
    /\ threshold_split = <<1, 2>>

\* C6 as stated: with quantile bounds (0, 1) the size filter excludes no
\* nucleus with a positive count, so nucleus j qualifies for cell i exactly
\* when overlap[i][j] / nuclei_counts[j] > threshold_split, a record is
\* emitted for cell i exactly when two or more nuclei qualify, and in the
\* scenario nucleus 1 qualifies, nucleus 2 does not, and cell 1 is not
\* flagged.
C6_FilterExcludesNone ==
    /\ UnderRoundDone =>
          /\ SeqRange(seg_idx) = ShareExceeds
          /\ idx \in DOMAIN cell_assignments <=> Cardinality(ShareExceeds) >= 2
    /\ Scenario => (seg_idx = <<1>> /\ 1 \notin DOMAIN cell_assignments)

\* C6 amended: with quantile bounds (0, 1) the size filter excludes exactly
\* the nuclei whose count equals the smallest or the largest entry of
\* nuclei_counts, so nucleus j qualifies for cell i exactly when its share
\* exceeds threshold_split and its count lies strictly between the two; a
\* record is emitted for cell i exactly when two or more nuclei qualify;
\* in the scenario no nucleus qualifies and cell 1 is not flagged.
C6_FilterExcludesExtremes ==
    /\ UnderRoundDone =>
          LET qualifying == { j \in ShareExceeds :
                                /\ nuclei_counts[j] > SmallestCount
                                /\ nuclei_counts[j] < LargestCount }
          IN  /\ SeqRange(seg_idx) = qualifying
              /\ Len(seg_idx) = Cardinality(qualifying)
              /\ idx \in DOMAIN cell_assignments <=> Cardinality(qualifying) >= 2
    /\ Scenario => (seg_idx = <<>> /\ 1 \notin DOMAIN cell_assignments)

\* C6 witness: under bounds (0, 1) a record is emitted for the cell of the
\* round, while a nucleus of the largest count whose share exceeds the
\* threshold is left out of it.
C6_Witness ==
    /\ UnderRoundDone
    /\ idx \in DOMAIN cell_assignments
    /\ \E j \in ShareExceeds :
          nuclei_counts[j] = LargestCount /\ j \notin SeqRange(seg_idx)

\* C7: a nucleus id whose nuclei_counts entry is 0 is skipped by the
\* over-segmentation pass: no ratio with a zero denominator is computed for
\* it and no record is emitted for it, whatever its column holds.
C7_ZeroCountSkipped ==
    (pc \in {"over_loop", "over_done"} /\ idx >= 0) =>
        /\ nuclei_counts[idx] = 0 =>
              \A k \in DOMAIN r_intersection : r_intersection[k][2] # 0
        /\ \A n \in DOMAIN nuclei_assignments : nuclei_counts[n] # 0

----------------------------------------------------------------------------
(* Claims about numba_find_overlaps                                        *)

\* C4: the statistics the counter returns satisfy, for every cell id i,
\* sum over j of overlap[i][j] <= cell_counts[i], and for every nucleus id
\* j, sum over i of overlap[i][j] <= nuclei_counts[j], also for labels
\* whose voxel count reaches the capacity of the counters' integer type.
C4_OverlapSumsBounded ==
    pc = "count_done" =>
        /\ \A i \in DOMAIN cell_counts :
              SumOver(intersection_counts[i], DOMAIN nuclei_counts) <= cell_counts[i]
        /\ \A j \in DOMAIN nuclei_counts :
              SumOver([ i \in DOMAIN cell_counts |-> intersection_counts[i][j] ],
                      DOMAIN cell_counts) <= nuclei_counts[j]

\* the number of voxels a single pass over the volume counts per label and
\* per pair of labels
VoxelCount(seg, i) ==
    IF i = 0 THEN 0 ELSE Cardinality({ v \in DOMAIN seg : seg[v] = i })

PairCount(cell, nuc, i, j) ==
    IF i = 0 \/ j = 0 THEN 0
    ELSE Cardinality({ v \in DOMAIN cell : cell[v] = i /\ nuc[v] = j })

\* C9: under every interleaving of the workers' counter updates the
\* returned arrays equal those of a single sequential pass over all
\* voxels: no worker's increment is lost.
C9_ParallelEqualsSequential ==
    pc = "count_done" =>
        /\ \A i \in DOMAIN cell_counts : cell_counts[i] = VoxelCount(segm, i)
        /\ \A j \in DOMAIN nuclei_counts : nuclei_counts[j] = VoxelCount(n_seg, j)
        /\ \A i \in DOMAIN cell_counts : \A j \in DOMAIN nuclei_counts :
              intersection_counts[i][j] = PairCount(segm, n_seg, i, j)

----------------------------------------------------------------------------
(* Claims about fix_over_under_segmentation_from_nuclei                    *)

\* the statistics of the volumes as a pass over all voxels counts them
TrueStats(cell, nuc) ==
    [ cell |-> [ i \in 0 .. MaxOf(cell) |-> VoxelCount(cell, i) ],
      nuc  |-> [ j \in 0 .. MaxOf(nuc) |-> VoxelCount(nuc, j) ],
      ovl  |-> [ i \in 0 .. MaxOf(cell) |->
                   [ j \in 0 .. MaxOf(nuc) |-> PairCount(cell, nuc, i, j) ] ] ]

\* the cell volume is consistent with the nuclei: no nucleus has two
\* qualifying overlapping cells and no cell two qualifying overlapping nuclei
Consistent(cell, nuc) ==
    LET st == TrueStats(cell, nuc)
    IN  /\ DOMAIN find_potential_over_seg(st.nuc, st.ovl, threshold_merge) = {}
        /\ DOMAIN find_potential_under_seg(st.nuc, st.cell, st.ovl,
                                           threshold_split, quantiles) = {}

\* C8: on a cell segmentation already consistent with the nuclei the
\* orchestrator performs no merge and no split: the returned volume equals
\* the input volume voxel for voxel.
C8_ConsistentUnchanged ==
    (pc = "orch_done" /\ Consistent(pre, n_seg)) => segm = pre

====
